---------------------------- MODULE Spec2Model ----------------------------
(***************************************************************************)
(* The webhook receiver of app.py: one Flask route, POST /, whose handler  *)
(* webhook() parses the JSON body and, when its "event" member is the      *)
(* string "closed_won", runs celebrate() on a module-level NeoPixel strip  *)
(* before answering.                                                       *)
(*                                                                         *)
(* A handler thread is modelled statement by statement (pc), since         *)
(* celebrate() blocks in time.sleep between its strip operations and the   *)
(* strip handle is shared by every request.                                *)
(***************************************************************************)
EXTENDS Integers, Sequences, FiniteSets, TLC

(***************************************************************************)
(* Program constants (app.py lines 10-22).                                 *)
(***************************************************************************)
NUM_LEDS == 300

\* BRIGHTNESS = 0.5, held here in percent.
BRIGHTNESS == 50

\* range(5) of celebrate(); the two others are loops one round off.
BLINKS_Short == 5 - 1

BLINKS_Long == 5 + 1

BLINKS == 5

\* time.sleep(0.5), held here in tenths of a time unit.
HOLD == 5

GREEN == <<0, 255, 0>>

OFF == <<0, 0, 0>>

(***************************************************************************)
(* Bounds of the model.                                                    *)
(***************************************************************************)
\* Requests accepted in one behaviour.
MaxRequests == 3

\* The handler threads of the server.
Handlers == {"h1", "h2"}

(***************************************************************************)
(* JSON values, as far as webhook() looks at them: the type, a size (the   *)
(* number of members, elements or characters; the value of a number; 1 for *)
(* true) that decides Python truthiness, and the member "event".           *)
(***************************************************************************)
NoMember == [type |-> "absent", val |-> ""]

JString(s) == [type |-> "string", val |-> s]

JNumber(s) == [type |-> "number", val |-> s]

JNull == [type |-> "null", size |-> 0, event |-> NoMember]

JObject(n, ev) == [type |-> "object", size |-> n, event |-> ev]

JArray(n) == [type |-> "array", size |-> n, event |-> NoMember]

JText(n) == [type |-> "string", size |-> n, event |-> NoMember]

JNum(n) == [type |-> "number", size |-> n, event |-> NoMember]

ClosedWon == JObject(1, JString("closed_won"))

Payloads ==
    { JNull,
      JObject(0, NoMember),
      JObject(1, NoMember),
      JObject(1, JString("other")),
      JObject(1, JNumber("1")),
      ClosedWon,
      JObject(2, JString("closed_won")),
      JArray(0),
      JArray(1),
      JText(10),
      JNum(0) }

\* An HTTP POST: its Content-Type, whether its body is well-formed JSON, and
\* the JSON value the body denotes when it is.
Request(ct, wf, v) == [ctype |-> ct, wellformed |-> wf, value |-> v]

Requests ==
    { Request("application/json", TRUE, v) : v \in Payloads }
      \cup { Request("application/json", FALSE, JNull),
             Request("text/plain", FALSE, JNull),
             Request("text/plain", TRUE, ClosedWon) }

NoRequest == Request("", FALSE, JNull)

(***************************************************************************)
(* Responses.                                                              *)
(***************************************************************************)
Response(code, kind, st, msg) ==
    [code |-> code, kind |-> kind, status |-> st, message |-> msg]

\* jsonify({"status": "success", "message": "LEDs blinked"}), 200
Success == Response(200, "json", "success", "LEDs blinked")

\* jsonify({"status": "error", "message": "Invalid webhook data"}), 400
InvalidData == Response(400, "json", "error", "Invalid webhook data")

\* The framework's own pages for an exception that leaves the view.
BadRequestPage == Response(400, "html", "", "Bad Request")

UnsupportedMediaTypePage == Response(415, "html", "", "Unsupported Media Type")

InternalServerErrorPage == Response(500, "html", "", "Internal Server Error")

NoResponse == Response(0, "", "", "")

VARIABLES
    nonJson,    \* what request.get_json() does with a non-JSON Content-Type
    threaded,   \* whether the server handles requests concurrently
    pixels,     \* the strip's pixel buffer (auto_write=False)
    strip,      \* what the strip displays
    pc,         \* each handler's position
    req,        \* each handler's request
    data,       \* each handler's local variable data
    resp,       \* each handler's response
    i,          \* each handler's loop counter in celebrate()
    ops,        \* the strip and sleep calls made for the handler's request
    clock,      \* time held in time.sleep for the request, in tenths
    alt,        \* the request's flushes displayed green, off, green, ...
    served      \* requests accepted so far

vars ==
    <<nonJson, threaded, pixels, strip, pc, req, data, resp, i, ops, clock,
      alt, served>>

(***************************************************************************)
(* The strip (neopixel.NeoPixel, auto_write=False).                        *)
(***************************************************************************)
\* pixels.fill(c): every pixel of the buffer; fill_Short misses the last one.
fill_Short(c) == [k \in 1..NUM_LEDS |-> IF k < NUM_LEDS THEN c ELSE pixels[k]]

fill(c) == [k \in 1..NUM_LEDS |-> c]

\* The colour a pixel is driven with: each channel scaled by the brightness.
Scaled(c) == [ch \in 1..3 |-> (c[ch] * BRIGHTNESS) \div 100]

\* pixels.show(): the buffer, scaled, goes to the strip.
show(buffer) == [k \in 1..NUM_LEDS |-> Scaled(buffer[k])]

Uniform(display, c) == \A k \in 1..NUM_LEDS : display[k] = Scaled(c)

AllOff == [k \in 1..NUM_LEDS |-> OFF]

(***************************************************************************)
(* webhook(), line 26: request.get_json().  A body that is not well-formed *)
(* JSON raises BadRequest; a Content-Type that is not JSON gives None or   *)
(* raises, by the Flask release installed.                                 *)
(***************************************************************************)
Returned(v) == [raised |-> "", value |-> v]

Raised(e) == [raised |-> e, value |-> JNull]

get_json(r, mode) ==
    IF r.ctype # "application/json"
    THEN CASE mode = "None" -> Returned(JNull)
           [] mode = "BadRequest" -> Raised("BadRequest")
           [] OTHER -> Raised("UnsupportedMediaType")
    ELSE IF ~r.wellformed
         THEN Raised("BadRequest")
         ELSE Returned(r.value)

ErrorPage(e) ==
    CASE e = "BadRequest" -> BadRequestPage
      [] e = "UnsupportedMediaType" -> UnsupportedMediaTypePage
      [] OTHER -> InternalServerErrorPage

(***************************************************************************)
(* webhook(), line 27: data and data.get("event") == "closed_won".         *)
(***************************************************************************)
\* Python truth value of a JSON value.
Truthy(v) == v.type # "null" /\ v.size # 0

\* Only a dict has .get; on anything else the call raises AttributeError.
HasGet(v) == v.type = "object"

\* The event member is the string "closed_won"; EventIsClosedWon_Loose takes
\* any string.
EventIsClosedWon_Loose(v) == v.event.type = "string"

EventIsClosedWon(v) == v.event = JString("closed_won")

(***************************************************************************)
(* Initial state: the module has been imported, nothing has been shown.    *)
(***************************************************************************)
InitCommon ==
    /\ pixels = AllOff
    /\ strip = AllOff
    /\ pc = [h \in Handlers |-> "idle"]
    /\ req = [h \in Handlers |-> NoRequest]
    /\ data = [h \in Handlers |-> JNull]
    /\ resp = [h \in Handlers |-> NoResponse]
    /\ i = [h \in Handlers |-> 0]
    /\ ops = [h \in Handlers |-> <<>>]
    /\ clock = [h \in Handlers |-> 0]
    /\ alt = [h \in Handlers |-> TRUE]
    /\ served = 0

\* Requests handled one at a time, under any Flask release.
Init ==
    /\ InitCommon
    /\ threaded = FALSE
    /\ nonJson \in {"None", "BadRequest", "UnsupportedMediaType"}

\* Requests handled by concurrent threads, as app.run() of line 34 serves them
\* under a current Flask release.
InitThreaded ==
    /\ InitCommon
    /\ threaded = TRUE
    /\ nonJson = "UnsupportedMediaType"

Idle == \A h \in Handlers : pc[h] = "idle"

(***************************************************************************)
(* A POST / arrives and is given to a free handler.                        *)
(***************************************************************************)
Arrive(h, r) ==
    /\ pc[h] = "idle"
    /\ served < MaxRequests
    /\ threaded \/ Idle
    /\ pc' = [pc EXCEPT ![h] = "get_json"]
    /\ req' = [req EXCEPT ![h] = r]
    /\ served' = served + 1
    /\ UNCHANGED <<nonJson, threaded, pixels, strip, data, resp, i, ops,
                   clock, alt>>

\* line 26: data = request.get_json()
GetJson(h) ==
    /\ pc[h] = "get_json"
    /\ LET out == get_json(req[h], nonJson) IN
         IF out.raised # ""
         THEN /\ resp' = [resp EXCEPT ![h] = ErrorPage(out.raised)]
              /\ pc' = [pc EXCEPT ![h] = "done"]
              /\ data' = data
         ELSE /\ data' = [data EXCEPT ![h] = out.value]
              /\ pc' = [pc EXCEPT ![h] = "check"]
              /\ resp' = resp
    /\ UNCHANGED <<nonJson, threaded, pixels, strip, req, i, ops, clock,
                   alt, served>>

\* Check, celebrating for the first request of the server only.
Check_Once(h) ==
    /\ pc[h] = "check"
    /\ IF Truthy(data[h]) /\ ~HasGet(data[h])
       THEN /\ resp' = [resp EXCEPT ![h] = ErrorPage("AttributeError")]
            /\ pc' = [pc EXCEPT ![h] = "done"]
       ELSE IF Truthy(data[h]) /\ EventIsClosedWon(data[h]) /\ served <= 1
            THEN /\ pc' = [pc EXCEPT ![h] = "fill_on"]
                 /\ resp' = resp
            ELSE /\ resp' = [resp EXCEPT ![h] = InvalidData]
                 /\ pc' = [pc EXCEPT ![h] = "done"]
    /\ i' = [i EXCEPT ![h] = 0]
    /\ UNCHANGED <<nonJson, threaded, pixels, strip, req, data, ops, clock,
                   alt, served>>

\* lines 27-28 and 31: the test, and the 400 answer when it fails.
Check(h) ==
    /\ pc[h] = "check"
    /\ IF Truthy(data[h]) /\ ~HasGet(data[h])
       THEN /\ resp' = [resp EXCEPT ![h] = ErrorPage("AttributeError")]
            /\ pc' = [pc EXCEPT ![h] = "done"]
       ELSE IF Truthy(data[h]) /\ EventIsClosedWon(data[h])
            THEN /\ pc' = [pc EXCEPT ![h] = "fill_on"]
                 /\ resp' = resp
            ELSE /\ resp' = [resp EXCEPT ![h] = InvalidData]
                 /\ pc' = [pc EXCEPT ![h] = "done"]
    /\ i' = [i EXCEPT ![h] = 0]
    /\ UNCHANGED <<nonJson, threaded, pixels, strip, req, data, ops, clock,
                   alt, served>>

(***************************************************************************)
(* celebrate(), lines 16-22.                                               *)
(***************************************************************************)
Fill(h, at, c, name, next) ==
    /\ pc[h] = at
    /\ pixels' = fill(c)
    /\ ops' = [ops EXCEPT ![h] = Append(@, name)]
    /\ pc' = [pc EXCEPT ![h] = next]
    /\ UNCHANGED <<nonJson, threaded, strip, req, data, resp, i, clock,
                   alt, served>>

\* How many times call c occurs in the log s.
Count(s, c) == Cardinality({k \in 1..Len(s) : s[k] = c})

\* The colour the request's next flush displays when nothing else drives the
\* strip: green first, then off, in turn.
Due(h) == IF Count(ops[h], "show") % 2 = 0 THEN GREEN ELSE OFF

Show(h, at, next) ==
    /\ pc[h] = at
    /\ strip' = show(pixels)
    /\ ops' = [ops EXCEPT ![h] = Append(@, "show")]
    /\ alt' = [alt EXCEPT ![h] = @ /\ Uniform(strip', Due(h))]
    /\ pc' = [pc EXCEPT ![h] = next]
    /\ UNCHANGED <<nonJson, threaded, pixels, req, data, resp, i, clock,
                   served>>

\* line 17
FillOn(h) == Fill(h, "fill_on", GREEN, "fill(0,255,0)", "show_on")

\* line 18
ShowOn(h) == Show(h, "show_on", "sleep_on")

\* line 19
SleepOn(h) ==
    /\ pc[h] = "sleep_on"
    /\ clock' = [clock EXCEPT ![h] = @ + HOLD]
    /\ ops' = [ops EXCEPT ![h] = Append(@, "sleep(0.5)")]
    /\ pc' = [pc EXCEPT ![h] = "fill_off"]
    /\ UNCHANGED <<nonJson, threaded, pixels, strip, req, data, resp, i,
                   alt, served>>

\* FillOff with the colour of line 17.
FillOff_Green(h) == Fill(h, "fill_off", GREEN, "fill(0,0,0)", "show_off")

\* line 20
FillOff(h) == Fill(h, "fill_off", OFF, "fill(0,0,0)", "show_off")

\* ShowOff without the call of show(): the buffer is never flushed.
ShowOff_Missing(h) ==
    /\ pc[h] = "show_off"
    /\ pc' = [pc EXCEPT ![h] = "sleep_off"]
    /\ UNCHANGED <<nonJson, threaded, pixels, strip, req, data, resp, i, ops,
                   clock, alt, served>>

\* line 21
ShowOff(h) == Show(h, "show_off", "sleep_off")

\* SleepOff without the call of time.sleep().
SleepOff_NoHold(h) ==
    /\ pc[h] = "sleep_off"
    /\ i' = [i EXCEPT ![h] = @ + 1]
    /\ pc' = [pc EXCEPT ![h] = IF i[h] + 1 < BLINKS THEN "fill_on" ELSE "return"]
    /\ UNCHANGED <<nonJson, threaded, pixels, strip, req, data, resp, ops,
                   clock, alt, served>>

\* line 22, and the loop's next round (line 16)
SleepOff(h) ==
    /\ pc[h] = "sleep_off"
    /\ clock' = [clock EXCEPT ![h] = @ + HOLD]
    /\ ops' = [ops EXCEPT ![h] = Append(@, "sleep(0.5)")]
    /\ i' = [i EXCEPT ![h] = @ + 1]
    /\ pc' = [pc EXCEPT ![h] = IF i[h] + 1 < BLINKS THEN "fill_on" ELSE "return"]
    /\ UNCHANGED <<nonJson, threaded, pixels, strip, req, data, resp,
                   alt, served>>

\* line 30: return jsonify({...}), 200
Return200(h) ==
    /\ pc[h] = "return"
    /\ resp' = [resp EXCEPT ![h] = Success]
    /\ pc' = [pc EXCEPT ![h] = "done"]
    /\ UNCHANGED <<nonJson, threaded, pixels, strip, req, data, i, ops,
                   clock, alt, served>>

\* The response has been sent; the handler is free for the next request.
Finish(h) ==
    /\ pc[h] = "done"
    /\ pc' = [pc EXCEPT ![h] = "idle"]
    /\ req' = [req EXCEPT ![h] = NoRequest]
    /\ data' = [data EXCEPT ![h] = JNull]
    /\ resp' = [resp EXCEPT ![h] = NoResponse]
    /\ i' = [i EXCEPT ![h] = 0]
    /\ ops' = [ops EXCEPT ![h] = <<>>]
    /\ clock' = [clock EXCEPT ![h] = 0]
    /\ alt' = [alt EXCEPT ![h] = TRUE]
    /\ UNCHANGED <<nonJson, threaded, pixels, strip, served>>

\* A step of handler h once it has its request.
Step(h) ==
    \/ GetJson(h)
    \/ Check(h)
    \/ FillOn(h)
    \/ ShowOn(h)
    \/ SleepOn(h)
    \/ FillOff(h)
    \/ ShowOff(h)
    \/ SleepOff(h)
    \/ Return200(h)
    \/ Finish(h)

Next ==
    \E h \in Handlers :
        \/ \E r \in Requests : Arrive(h, r)
        \/ Step(h)

\* Requests handled one at a time.
Spec == Init /\ [][Next]_vars

\* Either kind of server.
SpecDeployed == (Init \/ InitThreaded) /\ [][Next]_vars

\* A handler thread that can take its next statement does take it.
FairSpec == Init /\ [][Next]_vars /\ \A h \in Handlers : WF_vars(Step(h))

(***************************************************************************)
(* Vocabulary of the properties.                                           *)
(***************************************************************************)
CelebratePcs ==
    {"fill_on", "show_on", "sleep_on", "fill_off", "show_off", "sleep_off"}

InCelebrate(h) == pc[h] \in CelebratePcs

\* get_json() returned a value for the handler's request.
Parsed(h) == get_json(req[h], nonJson).raised = ""

\* The parsed payload is an object whose event is the string closed_won.
IsClosedWon(v) == v.type = "object" /\ v.event = JString("closed_won")

\* One on/off cycle, and the whole sequence of five.
Cycle ==
    <<"fill(0,255,0)", "show", "sleep(0.5)", "fill(0,0,0)", "show", "sleep(0.5)">>

Celebration == [k \in 1..30 |-> Cycle[((k - 1) % 6) + 1]]

(***************************************************************************)
(* C1.  A request whose parsed payload is an object with event equal to    *)
(* "closed_won" is answered 200 {status: success, message: LEDs blinked},  *)
(* and handling it makes exactly 5 green fills, 5 off fills and 10         *)
(* flushes; with no other request in progress meanwhile the flushes        *)
(* display green and off in turn: 5 green, 5 off.                          *)
(***************************************************************************)
C1_ClosedWonBlinksFiveTimes ==
    \A h \in Handlers :
        (pc[h] = "done" /\ Parsed(h) /\ IsClosedWon(data[h])) =>
            /\ resp[h] = Success
            /\ Count(ops[h], "fill(0,255,0)") = 5
            /\ Count(ops[h], "fill(0,0,0)") = 5
            /\ Count(ops[h], "show") = 10
            /\ Len(ops[h]) = 30
            /\ ~threaded => alt[h]

C1_Witness ==
    \E h \in Handlers :
        /\ pc[h] = "done"
        /\ data[h] = ClosedWon
        /\ resp[h] = Success
        /\ Count(ops[h], "show") = 10
        /\ alt[h]
        /\ ~threaded

(***************************************************************************)
(* C2.  A request whose parsed payload is missing (None), an empty object, *)
(* an object without event, or an object whose event is anything but the   *)
(* string "closed_won" is answered 400 {status: error, message: Invalid    *)
(* webhook data}.                                                          *)
(***************************************************************************)
C2_OtherPayloadsGet400 ==
    \A h \in Handlers :
        ( /\ pc[h] = "done"
          /\ Parsed(h)
          /\ \/ data[h].type = "null"
             \/ data[h].type = "object" /\ data[h].event # JString("closed_won") )
        => resp[h] = InvalidData

C2_Witness ==
    \E h \in Handlers :
        /\ pc[h] = "done"
        /\ Parsed(h)
        /\ data[h] = JObject(1, JString("other"))
        /\ resp[h] = InvalidData

(***************************************************************************)
(* C3.  A request whose body cannot be parsed as JSON is answered with the *)
(* handler's own 400 {status: error, message: Invalid webhook data}.       *)
(***************************************************************************)
C3_UnparseableGetsInvalidData ==
    \A h \in Handlers :
        (pc[h] = "done" /\ ~req[h].wellformed) => resp[h] = InvalidData

(***************************************************************************)
(* C4.  Every request is answered 200 or 400, whatever its body.           *)
(***************************************************************************)
C4_Only200Or400 ==
    \A h \in Handlers : pc[h] = "done" => resp[h].code \in {200, 400}

(***************************************************************************)
(* C5.  Within one run of celebrate() the calls are, five times over:      *)
(* fill green, flush, hold 0.5, fill off, flush, hold 0.5.  Every flush    *)
(* displays a uniform strip, green and off in turn starting with green,    *)
(* and the last flush of the run leaves the strip all off.                 *)
(***************************************************************************)
\* The number of calls made when the handler stands at a position of round n.
CallsAt(p, n) ==
    6 * n + CASE p = "fill_on" -> 0
              [] p = "show_on" -> 1
              [] p = "sleep_on" -> 2
              [] p = "fill_off" -> 3
              [] p = "show_off" -> 4
              [] OTHER -> 5

C5_CelebrateOrder ==
    \A h \in Handlers :
        /\ InCelebrate(h) =>
              /\ ops[h] = SubSeq(Celebration, 1, CallsAt(pc[h], i[h]))
              /\ alt[h]
              /\ pc[h] \in {"sleep_on", "fill_off", "show_off"} => Uniform(strip, GREEN)
              /\ pc[h] \in {"sleep_off"} => Uniform(strip, OFF)
        /\ (pc[h] = "return" \/ resp[h] = Success) =>
              /\ ops[h] = Celebration
              /\ alt[h]
              /\ Uniform(strip, OFF)

C5_Witness ==
    \E h \in Handlers :
        /\ pc[h] = "return"
        /\ ops[h] = Celebration
        /\ Uniform(strip, OFF)

(***************************************************************************)
(* C6.  The 200 response of a closed_won request exists only once its      *)
(* celebration is complete: after its tenth flush and its tenth hold,      *)
(* never before or during the sequence.                                    *)
(***************************************************************************)
C6_ResponseAfterCelebration ==
    \A h \in Handlers :
        /\ resp[h] = Success =>
              /\ Count(ops[h], "show") = 10
              /\ Count(ops[h], "sleep(0.5)") = 10
              /\ ops[h][Len(ops[h])] = "sleep(0.5)"
        /\ (pc[h] = "check" \/ InCelebrate(h) \/ pc[h] = "return") =>
              resp[h] = NoResponse

C6_Witness ==
    \E h \in Handlers :
        /\ pc[h] = "done"
        /\ resp[h] = Success
        /\ threaded
        /\ \E g \in Handlers \ {h} : InCelebrate(g)

(***************************************************************************)
(* C7.  Once started, celebrate() terminates, and always after the same    *)
(* length: 10 holds of 0.5 time units, 5 time units in all, whatever the   *)
(* request and whatever came before.                                       *)
(***************************************************************************)
C7_CelebrateTerminatesFixedLength ==
    /\ \A h \in Handlers : (pc[h] = "fill_on" /\ i[h] = 0) ~> (pc[h] = "return")
    /\ [](\A h \in Handlers :
            /\ pc[h] = "return" =>
                  /\ Count(ops[h], "sleep(0.5)") = 10
                  /\ clock[h] = 50
            /\ InCelebrate(h) =>
                  /\ i[h] < 5
                  /\ clock[h] = 5 * Count(ops[h], "sleep(0.5)")
                  /\ clock[h] < 50)

C7_Witness ==
    \E h \in Handlers :
        /\ pc[h] = "return"
        /\ clock[h] = 50
        /\ served > 1

(***************************************************************************)
(* C8.  Handled one at a time, a request's response and strip calls are a  *)
(* function of the request alone (under the installed Flask release): the  *)
(* requests that came before change nothing.                               *)
(***************************************************************************)
ResponseFor(r, mode) ==
    LET out == get_json(r, mode) IN
      IF out.raised # "" THEN ErrorPage(out.raised)
      ELSE IF Truthy(out.value) /\ ~HasGet(out.value) THEN InternalServerErrorPage
      ELSE IF Truthy(out.value) /\ EventIsClosedWon(out.value) THEN Success
      ELSE InvalidData

CallsFor(r, mode) == IF ResponseFor(r, mode) = Success THEN Celebration ELSE <<>>

C8_Stateless ==
    \A h \in Handlers :
        pc[h] = "done" =>
            /\ resp[h] = ResponseFor(req[h], nonJson)
            /\ ops[h] = CallsFor(req[h], nonJson)
            /\ alt[h]
            /\ clock[h] = 5 * Count(ops[h], "sleep(0.5)")

C8_Witness ==
    \E h \in Handlers :
        /\ pc[h] = "done"
        /\ served = MaxRequests
        /\ resp[h] = Success
        /\ ops[h] = Celebration

(***************************************************************************)
(* C9.  The strip handle is shared without mutual exclusion.  On a         *)
(* threaded server two closed_won handlers are inside celebrate() at once, *)
(* a flush of one displays what the other filled, and a 200 response is    *)
(* sent while the strip displays green (the witness).  Both happen only    *)
(* through a concurrent celebration: never on a server that handles one    *)
(* request at a time, and the green strip behind a 200 response belongs to *)
(* another handler still inside celebrate().                               *)
(***************************************************************************)
C9_SharedStripInterleaves ==
    \A h \in Handlers :
        /\ ~alt[h] => threaded
        /\ (pc[h] = "done" /\ resp[h] = Success /\ ~Uniform(strip, OFF)) =>
              /\ threaded
              /\ \E g \in Handlers \ {h} : InCelebrate(g)

C9_Witness ==
    \E h \in Handlers : \E g \in Handlers \ {h} :
        /\ pc[h] = "done"
        /\ resp[h] = Success
        /\ ~alt[h]
        /\ Uniform(strip, GREEN)
        /\ InCelebrate(g)
        /\ IsClosedWon(data[g])

(***************************************************************************)
(* C10.  A request answered 400 makes no fill and no flush, and no step of *)
(* a handler outside celebrate() changes the pixel buffer or the displayed *)
(* strip; so, with requests handled one at a time from an off strip, the   *)
(* strip is all off whenever no request is in progress.                    *)
(***************************************************************************)
C10_ErrorLeavesStripUntouched ==
    /\ [](\A h \in Handlers :
            (pc[h] = "done" /\ resp[h].code = 400) =>
                /\ ops[h] = <<>>
                /\ pixels = AllOff
                /\ strip = AllOff)
    /\ [](Idle => strip = AllOff /\ pixels = AllOff)
    /\ [][(\E h \in Handlers : ~InCelebrate(h) /\ pc'[h] # pc[h]) =>
             (pixels' = pixels /\ strip' = strip)]_vars

C10_Witness ==
    \E h \in Handlers :
        /\ pc[h] = "done"
        /\ resp[h] = InvalidData
        /\ served > 1
        /\ strip = AllOff

=============================================================================
